---- MODULE Spec2Model ----
(***************************************************************************)
(* A model of mcp-rule: the Rule.io API client (mcp_rule/client.py), its   *)
(* typed models (mcp_rule/models.py) and the request router built on it    *)
(* (mcp_rule/mcp.py).                                                      *)
(*                                                                         *)
(* Python values (JSON documents, arguments, typed results, error fields)  *)
(* are records tagged by "kind"; every kind has field names of its own, so *)
(* two values are equal exactly when the Python values are.                *)
(***************************************************************************)
EXTENDS Integers, Sequences, FiniteSets, TLC

VARIABLES
    pc,         \* "idle" | "ready" (a caller holds a client) | "http" | "done"
    entry,      \* who is running: "none" | "client" | "request" | "router" | "direct"
    client,     \* the caller's own RuleClient instance (NoClient before any)
    ctx,        \* the per-dispatch context built by handle_rule_mcp
    call,       \* the client operation in progress and its arguments
    req,        \* the ContextRequest being dispatched
    sent,       \* the HTTP requests issued by the call in progress
    resp,       \* what the transport delivered for it
    cres,       \* how the client call ended
    dres,       \* how the dispatch ended
    ctorCalls,  \* RuleClient constructions made by the dispatch in progress
    handlerRan, \* TRUE once a route handler's body has run in this dispatch
    instances,  \* the RuleClient objects handle_rule_mcp constructed, in order
    log,        \* one record per dispatch: its key and the instance it used
    cli         \* the command-line run in progress: arguments, exit status, output

vars ==
    <<pc, entry, client, ctx, call, req, sent, resp, cres, dres, ctorCalls, handlerRan,
      instances, log, cli>>

\* ------------------------------------------------------------------ bounds

\* Longest `data` array a response body carries.
MaxData == 2

\* Longest sequence of dispatches followed one after the other.
MaxDispatches == 2

\* ----------------------------------------------------------- Python values

EmptyFn == [k \in {} |-> 0]

PyNone == [kind |-> "none"]
PyStr(s) == [kind |-> "str", str |-> s]
PyInt(n) == [kind |-> "int", num |-> n]
PyBool(b) == [kind |-> "bool", bool |-> b]
PyList(xs) == [kind |-> "list", items |-> xs]
PyDict(f) == [kind |-> "dict", fields |-> f]
PyDatetime(s) == [kind |-> "datetime", iso |-> s]
PyModel(c, a) == [kind |-> "model", cls |-> c, attrs |-> a]

\* A key that is not there (the argument of no Python value).
Absent == [kind |-> "absent"]

HasKey(d, k) == d.kind = "dict" /\ k \in DOMAIN d.fields

\* dict.get(k, default)
DictGet(d, k, default) == IF k \in DOMAIN d.fields THEN d.fields[k] ELSE default

\* {**a, **b}: b's entries win.
Merge(a, b) ==
    [k \in (DOMAIN a) \cup (DOMAIN b) |-> IF k \in DOMAIN b THEN b[k] ELSE a[k]]

\* {k: v for k, v in d.items() if v is not None}
DropNone(d) == [k \in {x \in DOMAIN d : d[x] # PyNone} |-> d[k]]

\* Python truthiness of the values the code tests with `not` / `or`.
Truthy(v) ==
    CASE v.kind = "none" -> FALSE
      [] v.kind = "str" -> v.str # ""
      [] v.kind = "int" -> v.num # 0
      [] v.kind = "bool" -> v.bool
      [] v.kind = "list" -> v.items # <<>>
      [] v.kind = "dict" -> DOMAIN v.fields # {}
      [] OTHER -> TRUE

\* x or y
PyOr(x, y) == IF Truthy(x) THEN x ELSE y

\* str(v) for the values that reach an f-string.
StrOf(v) ==
    CASE v.kind = "str" -> v.str
      [] v.kind = "none" -> "None"
      [] v.kind = "datetime" /\ v.iso = "2023-01-01T00:00:00Z" -> "2023-01-01 00:00:00+00:00"
      [] OTHER -> "<value>"

\* ------------------------------------------------------------- JSON bodies

IsoDates == {"2023-01-01T00:00:00Z"}

SubA ==
    PyDict([id |-> PyStr("123"), email |-> PyStr("test@example.com"),
            created |-> PyStr("2023-01-01T00:00:00Z"),
            updated |-> PyStr("2023-01-01T00:00:00Z"),
            status |-> PyStr("active")])

SubB ==
    PyDict([id |-> PyStr("456"), email |-> PyStr("new@example.com"),
            created |-> PyStr("2023-01-01T00:00:00Z"),
            updated |-> PyStr("2023-01-01T00:00:00Z"),
            fields |-> PyDict(EmptyFn), tags |-> PyList(<<PyStr("tag1")>>),
            unsubscribed |-> PyBool(FALSE), bounced |-> PyBool(FALSE),
            status |-> PyStr("active")])

TagA ==
    PyDict([id |-> PyStr("t1"), name |-> PyStr("vip"),
            created |-> PyStr("2023-01-01T00:00:00Z"),
            updated |-> PyStr("2023-01-01T00:00:00Z"),
            subscriber_count |-> PyInt(3)])

CampA ==
    PyDict([id |-> PyStr("c1"), name |-> PyStr("launch"),
            created |-> PyStr("2023-01-01T00:00:00Z"),
            updated |-> PyStr("2023-01-01T00:00:00Z"),
            status |-> PyStr("sent"), type |-> PyStr("email")])

BadEntity == PyDict([id |-> PyStr("1")])

Entities == {SubA, SubB, TagA, CampA, BadEntity}

PagOk ==
    PyDict([total |-> PyInt(1), count |-> PyInt(1), per_page |-> PyInt(10),
            current_page |-> PyInt(1), total_pages |-> PyInt(1)])

SeqsUpTo(S, n) == UNION {[1..m -> S] : m \in 0..n}

DataValues ==
    {PyList(xs) : xs \in SeqsUpTo(Entities, MaxData)} \cup Entities \cup {PyNone}

EnvPick(k, d, p) == IF k = "data" THEN d ELSE p

Envelope(d, p) ==
    PyDict([k \in {x \in {"data", "pagination"} : EnvPick(x, d, p) # Absent}
               |-> EnvPick(k, d, p)])

Envelopes ==
    {Envelope(d, p) : d \in DataValues \cup {Absent}, p \in {PagOk, Absent}}

ErrorDocs ==
    {PyDict([message |-> PyStr("Not found")]),
     PyDict([message |-> PyNone, code |-> PyInt(17)]),
     PyDict([error |-> PyStr("bad request")]),
     PyList(<<PyStr("oops")>>),
     PyNone}

\* A response body is the text of a JSON document or text that is no JSON.
JsonBody(v) == [json |-> TRUE, value |-> v, text |-> ""]
TextBody(t) == [json |-> FALSE, value |-> PyNone, text |-> t]

Bodies ==
    {JsonBody(v) : v \in Envelopes \cup ErrorDocs}
        \cup {TextBody("<html>Bad Gateway</html>"), TextBody("")}

Statuses == {200, 201, 204, 404, 500}

TransportCauses ==
    {"[Errno -2] Name or service not known",
     "[Errno 111] Connection refused",
     "The read operation timed out"}

HttpResponse(s, b) == [kind |-> "http", status |-> s, body |-> b, cause |-> ""]
TransportFailure(c) == [kind |-> "transport", status |-> 0, body |-> TextBody(""), cause |-> c]
NoResponse == [kind |-> "none", status |-> 0, body |-> TextBody(""), cause |-> ""]

Responses ==
    {HttpResponse(s, b) : s \in Statuses, b \in Bodies}
        \cup {TransportFailure(c) : c \in TransportCauses}

\* ---------------------------------------------------------------- outcomes

NoOutcome ==
    [kind |-> "none", value |-> PyNone, error |-> "", status_code |-> PyNone,
     message |-> PyNone, details |-> PyNone]

Returned(v) == [NoOutcome EXCEPT !.kind = "result", !.value = v]

Raised(e, msg) == [NoOutcome EXCEPT !.kind = "error", !.error = e, !.message = msg]

\* RuleAPIError(status_code, message, details)
RuleAPIError(status_code, message, details) ==
    [NoOutcome EXCEPT !.kind = "error", !.error = "RuleAPIError",
                      !.status_code = status_code, !.message = message,
                      !.details = details]

\* ------------------------------------------------------ pydantic models

\* Field table of a model class: type, whether required, and the default.
Fld(t, r, d) == [type |-> t, required |-> r, default |-> d]

Schema(cls) ==
    CASE cls = "Subscriber" ->
           [id |-> Fld("str", TRUE, PyNone), email |-> Fld("str", TRUE, PyNone),
            created |-> Fld("datetime", TRUE, PyNone),
            updated |-> Fld("datetime", TRUE, PyNone),
            fields |-> Fld("dict", FALSE, PyDict(EmptyFn)),
            tags |-> Fld("list_str", FALSE, PyList(<<>>)),
            unsubscribed |-> Fld("bool", FALSE, PyBool(FALSE)),
            bounced |-> Fld("bool", FALSE, PyBool(FALSE)),
            status |-> Fld("str", TRUE, PyNone),
            source |-> Fld("opt_str", FALSE, PyNone)]
      [] cls = "SubscriberCreate" ->
           [email |-> Fld("str", TRUE, PyNone),
            tags |-> Fld("list_str", FALSE, PyList(<<>>)),
            fields |-> Fld("dict", FALSE, PyDict(EmptyFn))]
      [] cls = "Pagination" ->
           [total |-> Fld("int", TRUE, PyNone), count |-> Fld("int", TRUE, PyNone),
            per_page |-> Fld("int", TRUE, PyNone),
            current_page |-> Fld("int", TRUE, PyNone),
            total_pages |-> Fld("int", TRUE, PyNone)]
      [] cls = "Tag" ->
           [id |-> Fld("str", TRUE, PyNone), name |-> Fld("str", TRUE, PyNone),
            created |-> Fld("datetime", TRUE, PyNone),
            updated |-> Fld("datetime", TRUE, PyNone),
            subscriber_count |-> Fld("int", TRUE, PyNone)]
      [] cls = "Campaign" ->
           [id |-> Fld("str", TRUE, PyNone), name |-> Fld("str", TRUE, PyNone),
            created |-> Fld("datetime", TRUE, PyNone),
            updated |-> Fld("datetime", TRUE, PyNone),
            status |-> Fld("str", TRUE, PyNone), type |-> Fld("str", TRUE, PyNone),
            subject |-> Fld("opt_str", FALSE, PyNone),
            sender_name |-> Fld("opt_str", FALSE, PyNone),
            sender_email |-> Fld("opt_str", FALSE, PyNone)]
      [] cls = "CustomField" ->
           [id |-> Fld("str", TRUE, PyNone), name |-> Fld("str", TRUE, PyNone),
            type |-> Fld("str", TRUE, PyNone),
            created |-> Fld("datetime", TRUE, PyNone),
            updated |-> Fld("datetime", TRUE, PyNone),
            default_value |-> Fld("any", FALSE, PyNone)]
      [] cls = "SubscriberData" ->
           [email |-> Fld("str", TRUE, PyNone),
            tags |-> Fld("opt_list_str", FALSE, PyNone),
            fields |-> Fld("opt_dict", FALSE, PyNone)]
      [] cls = "SearchParams" ->
           [page |-> Fld("opt_int", FALSE, PyInt(1)),
            limit |-> Fld("opt_int", FALSE, PyInt(100)),
            filters |-> Fld("opt_dict", FALSE, PyNone)]
      [] cls = "TagData" -> [name |-> Fld("str", TRUE, PyNone)]
      [] cls = "CustomFieldData" ->
           [name |-> Fld("str", TRUE, PyNone), field_type |-> Fld("str", TRUE, PyNone),
            default_value |-> Fld("any", FALSE, PyNone)]

\* Whether pydantic accepts value v for a field of type t.
TypeOk(t, v) ==
    CASE t = "str" -> v.kind = "str"
      [] t = "opt_str" -> v.kind \in {"str", "none"}
      [] t = "int" -> v.kind = "int"
      [] t = "bool" -> v.kind = "bool"
      [] t = "dict" -> v.kind = "dict"
      [] t = "datetime" -> v.kind = "int" \/ (v.kind = "str" /\ v.str \in IsoDates)
      [] t = "list_str" ->
           v.kind = "list" /\ \A i \in 1..Len(v.items) : v.items[i].kind = "str"
      [] t = "opt_list_str" ->
           \/ v.kind = "none"
           \/ v.kind = "list" /\ \A i \in 1..Len(v.items) : v.items[i].kind = "str"
      [] t = "opt_int" -> v.kind \in {"int", "none"}
      [] t = "opt_dict" -> v.kind \in {"dict", "none"}
      [] OTHER -> TRUE

\* A validation that stores every accepted value as it came.
Coerce_Identity(t, v) == v

\* The value pydantic stores for an accepted v.
Coerce(t, v) ==
    IF t = "datetime" THEN PyDatetime(StrOf(v)) ELSE v

\* cls(**kw) passes validation.
Validates(cls, kw) ==
    \A k \in DOMAIN Schema(cls) :
        IF k \in DOMAIN kw THEN TypeOk(Schema(cls)[k].type, kw[k])
        ELSE ~Schema(cls)[k].required

\* The instance cls(**kw) of a validated kw; unknown keys are ignored.
Construct(cls, kw) ==
    PyModel(cls,
        [k \in DOMAIN Schema(cls) |->
            IF k \in DOMAIN kw THEN Coerce(Schema(cls)[k].type, kw[k])
            ELSE Schema(cls)[k].default])

\* model.model_dump()
ModelDump(m) == PyDict(m.attrs)

\* cls(**v) for a single entity v, as an outcome.
EntityOf(cls, v) ==
    IF v.kind # "dict" THEN Raised("TypeError", PyStr("argument after ** must be a mapping"))
    ELSE IF ~Validates(cls, v.fields)
         THEN Raised("ValidationError", PyStr("validation error for " \o cls))
         ELSE Returned(Construct(cls, v.fields))

\* [cls(**x) for x in d]: the first element that fails decides the error.
EntityListOf(cls, d) ==
    IF d.kind = "list" THEN
        LET bad == {i \in 1..Len(d.items) : EntityOf(cls, d.items[i]).kind = "error"}
        IN  IF bad = {}
            THEN Returned(PyList([i \in 1..Len(d.items) |-> EntityOf(cls, d.items[i]).value]))
            ELSE EntityOf(cls, d.items[CHOOSE i \in bad : \A j \in bad : i <= j])
    ELSE IF d.kind = "dict" THEN
        IF DOMAIN d.fields = {} THEN Returned(PyList(<<>>))
        ELSE Raised("TypeError", PyStr("argument after ** must be a mapping"))
    ELSE Raised("TypeError", PyStr("object is not iterable"))

\* SubscriberResponse(**response).data
SubscriberResponse(response) ==
    IF response.kind # "dict"
    THEN Raised("TypeError", PyStr("argument after ** must be a mapping"))
    ELSE IF HasKey(response, "data") /\ response.fields.data.kind = "dict"
            /\ Validates("Subscriber", response.fields.data.fields)
         THEN Returned(Construct("Subscriber", response.fields.data.fields))
         ELSE Raised("ValidationError", PyStr("validation error for SubscriberResponse"))

\* SubscribersResponse(**response).data
SubscribersResponse(response) ==
    IF response.kind # "dict"
    THEN Raised("TypeError", PyStr("argument after ** must be a mapping"))
    ELSE IF /\ HasKey(response, "data")
            /\ response.fields.data.kind = "list"
            /\ \A i \in 1..Len(response.fields.data.items) :
                   /\ response.fields.data.items[i].kind = "dict"
                   /\ Validates("Subscriber", response.fields.data.items[i].fields)
            /\ HasKey(response, "pagination")
            /\ response.fields.pagination.kind = "dict"
            /\ Validates("Pagination", response.fields.pagination.fields)
         THEN Returned(PyList(
                  [i \in 1..Len(response.fields.data.items) |->
                      Construct("Subscriber", response.fields.data.items[i].fields)]))
         ELSE Raised("ValidationError", PyStr("validation error for SubscribersResponse"))

\* response.get("data", default), as an outcome (response may have no .get).
GetData(response, default) ==
    IF response.kind # "dict"
    THEN Raised("AttributeError", PyStr("object has no attribute 'get'"))
    ELSE Returned(DictGet(response, "data", default))

\* ------------------------------------------------------------ RuleClient

DefaultTimeout == 30

NoClient == [exists |-> FALSE, api_key |-> PyNone, auth |-> "", timeout |-> 0]

\* RuleClient.__init__: the key is stored and put in the header as it is.
RuleClientInit(api_key) ==
    [exists |-> TRUE, api_key |-> api_key,
     auth |-> "Bearer " \o StrOf(api_key), timeout |-> DefaultTimeout]

Methods ==
    {"GET", "get", "POST", "Post", "PUT", "put", "DELETE", "delete",
     "PATCH", "patch", "HEAD", ""}

\* str.upper() on the method names of the model.
Upper(m) ==
    CASE m \in {"GET", "get"} -> "GET"
      [] m \in {"POST", "Post"} -> "POST"
      [] m \in {"PUT", "put"} -> "PUT"
      [] m \in {"DELETE", "delete"} -> "DELETE"
      [] m \in {"PATCH", "patch"} -> "PATCH"
      [] OTHER -> m

HttpReq(c, method, url, params, json) ==
    [method |-> method, url |-> url, params |-> params, json |-> json,
     auth |-> c.auth]

\* A chain with one branch more.
SupportedMethod_WithPatch(method) ==
    Upper(method) \in {"GET", "POST", "PUT", "DELETE", "PATCH"}

\* The if/elif chain of _request: whether a branch other than `else` is taken.
SupportedMethod(method) == Upper(method) \in {"GET", "POST", "PUT", "DELETE"}

\* A chain that issues GET requests twice.
IssuedBy_Twice(c, method, url, params, data) ==
    IF Upper(method) = "GET"
    THEN <<HttpReq(c, "GET", url, params, Absent), HttpReq(c, "GET", url, params, Absent)>>
    ELSE <<HttpReq(c, Upper(method), url, Absent, data)>>

\* The HTTP requests the if/elif chain of _request issues.
IssuedBy(c, method, url, params, data) ==
    CASE Upper(method) = "GET" -> <<HttpReq(c, "GET", url, params, Absent)>>
      [] Upper(method) = "POST" -> <<HttpReq(c, "POST", url, Absent, data)>>
      [] Upper(method) = "PUT" -> <<HttpReq(c, "PUT", url, Absent, data)>>
      [] Upper(method) = "DELETE" -> <<HttpReq(c, "DELETE", url, Absent, Absent)>>
      [] OTHER -> <<>>

\* response.raise_for_status() raises (httpx >= 0.24: every non-2xx status).
RaisesForStatus(status) == ~(200 <= status /\ status < 300)

\* str(e) of the HTTPStatusError raised for a status.
StatusErrorStr(status) ==
    CASE status = 404 -> "Client error '404 Not Found'"
      [] status = 500 -> "Server error '500 Internal Server Error'"
      [] OTHER -> "HTTP status error"

\* A fallback that files the raw text under "message".
FallbackBody_AsMessage(text) == PyDict([message |-> PyStr(text)])

\* The body built when e.response.json() fails.
FallbackBody(text) == PyDict([detail |-> PyStr(text)])

\* error_data of the HTTPStatusError branch.
ErrorData(r) == IF r.body.json THEN r.body.value ELSE FallbackBody(r.body.text)

\* A lookup of the wrong key of error_data.
ErrorMessage_DetailKey(error_data, status) ==
    DictGet(error_data, "detail", PyStr(StatusErrorStr(status)))

\* error_data.get("message", str(e))
ErrorMessage(error_data, status) ==
    DictGet(error_data, "message", PyStr(StatusErrorStr(status)))

\* A transport failure wrapped without the "Request error: " prefix.
TransportError_NoPrefix(cause) == RuleAPIError(PyNone, PyStr(cause), PyDict(EmptyFn))

\* The except httpx.RequestError branch of _request.
TransportError(cause) ==
    RuleAPIError(PyNone, PyStr("Request error: " \o cause), PyDict(EmptyFn))

\* A success path that parses the body before it looks at the status.
SuccessOutcome_ParsesFirst(r) ==
    IF ~r.body.json THEN Raised("JSONDecodeError", PyStr("Expecting value"))
    ELSE IF r.status = 204 THEN Returned(PyNone)
    ELSE Returned(r.body.value)

\* _request once raise_for_status() has passed: None for a 204, else
\* response.json().
SuccessOutcome(r) ==
    IF r.status = 204 THEN Returned(PyNone)
    ELSE IF r.body.json THEN Returned(r.body.value)
    ELSE Raised("JSONDecodeError", PyStr("Expecting value"))

\* What _request does with what the transport delivered.
RequestOutcome(r) ==
    IF r.kind = "transport" THEN TransportError(r.cause)
    ELSE IF RaisesForStatus(r.status) THEN
        IF ErrorData(r).kind # "dict"
        THEN Raised("AttributeError", PyStr("object has no attribute 'get'"))
        ELSE RuleAPIError(PyInt(r.status), ErrorMessage(ErrorData(r), r.status),
                          ErrorData(r))
    ELSE SuccessOutcome(r)

\* ---------------------------------------------------- client operations

ListOps == {"get_subscribers", "get_tags", "get_campaigns", "get_custom_fields"}

OpNames ==
    ListOps \cup {"get_subscriber", "create_subscriber", "update_subscriber",
                  "delete_subscriber", "create_tag", "create_custom_field"}

NoArgs ==
    [id |-> "", email |-> PyNone, tags |-> PyNone, fields |-> PyNone,
     page |-> PyInt(1), limit |-> PyInt(100), filters |-> EmptyFn,
     name |-> PyNone, field_type |-> PyNone, default_value |-> PyNone]

Wire(method, url, params, data) ==
    [method |-> method, url |-> url, params |-> params, data |-> data]

PageParams(a) == PyDict([page |-> a.page, limit |-> a.limit])

\* SubscriberCreate(email=..., tags=tags or [], fields=fields or {})
SubscriberCreateKw(a) ==
    [email |-> a.email, tags |-> PyOr(a.tags, PyList(<<>>)),
     fields |-> PyOr(a.fields, PyDict(EmptyFn))]

\* The error an operation raises before it calls _request, if any.
LocalError(op, a) ==
    IF op = "create_subscriber" /\ ~Validates("SubscriberCreate", SubscriberCreateKw(a))
    THEN Raised("ValidationError", PyStr("validation error for SubscriberCreate"))
    ELSE NoOutcome

\* A query that merges the filters as they are, None values included.
SubscriberQuery_KeepNone(a) ==
    PyDict(Merge([page |-> a.page, limit |-> a.limit], a.filters))

\* get_subscribers: {"page": page, "limit": limit, **{non-None filters}}
SubscriberQuery(a) ==
    PyDict(Merge([page |-> a.page, limit |-> a.limit], DropNone(a.filters)))

\* A body that keeps the truthy arguments only.
UpdateBody_DropsFalsy(a) ==
    PyDict([k \in {x \in {"email", "tags", "fields"} : Truthy(a[x])} |-> a[k]])

\* update_subscriber: {k: v for email, tags, fields if v is not None}
UpdateBody(a) ==
    PyDict(DropNone([email |-> a.email, tags |-> a.tags, fields |-> a.fields]))

\* The arguments each operation hands to _request.
OpRequest(op, a) ==
    CASE op = "get_subscribers" -> Wire("GET", <<"subscribers">>, SubscriberQuery(a), PyNone)
      [] op = "get_subscriber" -> Wire("GET", <<"subscribers", a.id>>, PyNone, PyNone)
      [] op = "create_subscriber" ->
           Wire("POST", <<"subscribers">>, PyNone,
                ModelDump(Construct("SubscriberCreate", SubscriberCreateKw(a))))
      [] op = "update_subscriber" ->
           Wire("PUT", <<"subscribers", a.id>>, PyNone, UpdateBody(a))
      [] op = "delete_subscriber" -> Wire("DELETE", <<"subscribers", a.id>>, PyNone, PyNone)
      [] op = "get_tags" -> Wire("GET", <<"tags">>, PageParams(a), PyNone)
      [] op = "create_tag" -> Wire("POST", <<"tags">>, PyNone, PyDict([name |-> a.name]))
      [] op = "get_campaigns" -> Wire("GET", <<"campaigns">>, PageParams(a), PyNone)
      [] op = "get_custom_fields" -> Wire("GET", <<"fields">>, PageParams(a), PyNone)
      [] op = "create_custom_field" ->
           Wire("POST", <<"fields">>, PyNone,
                PyDict(Merge([name |-> a.name, type |-> a.field_type],
                             DropNone([default_value |-> a.default_value]))))

\* get_subscribers, after _request returned `response`.
GetSubscribersResult(response) == SubscribersResponse(response)

\* A list unwrapping that indexes response["data"].
ListResult_KeyError(cls, response) ==
    IF HasKey(response, "data") THEN EntityListOf(cls, response.fields.data)
    ELSE Raised("KeyError", PyStr("data"))

\* [cls(**x) for x in response.get("data", [])]
ListResult(cls, response) ==
    IF GetData(response, PyList(<<>>)).kind = "error"
    THEN GetData(response, PyList(<<>>))
    ELSE EntityListOf(cls, GetData(response, PyList(<<>>)).value)

\* cls(**response.get("data", {}))
SingleResult(cls, response) ==
    IF GetData(response, PyDict(EmptyFn)).kind = "error"
    THEN GetData(response, PyDict(EmptyFn))
    ELSE EntityOf(cls, GetData(response, PyDict(EmptyFn)).value)

GetTagsResult(response) == ListResult("Tag", response)

GetCampaignsResult(response) == ListResult("Campaign", response)

GetCustomFieldsResult(response) == ListResult("CustomField", response)

\* What operation op makes of the outcome o of its _request call.
OpOutcome(op, o) ==
    IF o.kind = "error" THEN o
    ELSE CASE op = "get_subscribers" -> GetSubscribersResult(o.value)
           [] op \in {"get_subscriber", "create_subscriber", "update_subscriber"} ->
                SubscriberResponse(o.value)
           [] op = "delete_subscriber" -> Returned(PyNone)
           [] op = "get_tags" -> GetTagsResult(o.value)
           [] op = "create_tag" -> SingleResult("Tag", o.value)
           [] op = "get_campaigns" -> GetCampaignsResult(o.value)
           [] op = "get_custom_fields" -> GetCustomFieldsResult(o.value)
           [] op = "create_custom_field" -> SingleResult("CustomField", o.value)
           [] OTHER -> o

\* ------------------------------------------------------------ the router

\* The routes of mcp.py in registration order; the handler of a route has the
\* name of the client operation it calls.
RouteTable ==
    <<[method |-> "GET", pattern |-> <<"subscribers">>, handler |-> "get_subscribers"],
      [method |-> "GET", pattern |-> <<"subscribers", "{subscriber_id}">>,
       handler |-> "get_subscriber"],
      [method |-> "POST", pattern |-> <<"subscribers">>, handler |-> "create_subscriber"],
      [method |-> "PUT", pattern |-> <<"subscribers", "{subscriber_id}">>,
       handler |-> "update_subscriber"],
      [method |-> "DELETE", pattern |-> <<"subscribers", "{subscriber_id}">>,
       handler |-> "delete_subscriber"],
      [method |-> "GET", pattern |-> <<"tags">>, handler |-> "get_tags"],
      [method |-> "POST", pattern |-> <<"tags">>, handler |-> "create_tag"],
      [method |-> "GET", pattern |-> <<"campaigns">>, handler |-> "get_campaigns"],
      [method |-> "GET", pattern |-> <<"fields">>, handler |-> "get_custom_fields"],
      [method |-> "POST", pattern |-> <<"fields">>, handler |-> "create_custom_field"]>>

\* A pattern matches a path segment by segment; {subscriber_id} matches any.
PathMatch(pattern, path) ==
    /\ Len(pattern) = Len(path)
    /\ \A i \in 1..Len(pattern) : pattern[i] = path[i] \/ pattern[i] = "{subscriber_id}"

\* The first route matching (method, path), 0 when there is none.
MatchRoute(method, path) ==
    LET hits == {i \in 1..Len(RouteTable) :
                    /\ RouteTable[i].method = Upper(method)
                    /\ PathMatch(RouteTable[i].pattern, path)}
    IN  IF hits = {} THEN 0 ELSE CHOOSE i \in hits : \A j \in hits : i <= j

\* The input model a handler declares, "" when it takes none.
InputModel(h) ==
    CASE h \in ListOps -> "SearchParams"
      [] h \in {"create_subscriber", "update_subscriber"} -> "SubscriberData"
      [] h = "create_tag" -> "TagData"
      [] h = "create_custom_field" -> "CustomFieldData"
      [] OTHER -> ""

\* The part of the request a handler's input model is read from.
InputSource(h, request) ==
    IF InputModel(h) = "SearchParams" THEN PyOr(request.query, PyDict(EmptyFn))
    ELSE request.body

\* The request passes the validation of the handler's input model.
BindOk(h, request) ==
    \/ InputModel(h) = ""
    \/ /\ InputSource(h, request).kind = "dict"
       /\ Validates(InputModel(h), InputSource(h, request).fields)

\* The handler's `params` / `data` argument (its attributes), for a request
\* that passes validation.
Bound(h, request) ==
    IF InputModel(h) = "" THEN EmptyFn
    ELSE Construct(InputModel(h), InputSource(h, request).fields).attrs

\* A handler that fills in the defaults of the optional keys itself.
CreateSubscriberArgs_Defaults(b) ==
    [NoArgs EXCEPT !.email = b.email, !.tags = PyOr(b.tags, PyList(<<>>)),
                   !.fields = PyOr(b.fields, PyDict(EmptyFn))]

\* create_subscriber's handler: email=data.email, tags=data.tags,
\* fields=data.fields.
CreateSubscriberArgs(b) ==
    [NoArgs EXCEPT !.email = b.email, !.tags = b.tags, !.fields = b.fields]

\* The keyword arguments each handler passes to its client operation.
HandlerArgs(h, b, path) ==
    CASE h = "get_subscribers" ->
           [NoArgs EXCEPT !.page = b.page, !.limit = b.limit,
                          !.filters = PyOr(b.filters, PyDict(EmptyFn)).fields]
      [] h \in {"get_tags", "get_campaigns", "get_custom_fields"} ->
           [NoArgs EXCEPT !.page = b.page, !.limit = b.limit]
      [] h \in {"get_subscriber", "delete_subscriber"} -> [NoArgs EXCEPT !.id = path[2]]
      [] h = "create_subscriber" -> CreateSubscriberArgs(b)
      [] h = "update_subscriber" ->
           [NoArgs EXCEPT !.id = path[2], !.email = b.email, !.tags = b.tags,
                          !.fields = b.fields]
      [] h = "create_tag" -> [NoArgs EXCEPT !.name = b.name]
      [] h = "create_custom_field" ->
           [NoArgs EXCEPT !.name = b.name, !.field_type = b.field_type,
                          !.default_value = b.default_value]

\* [x.model_dump() for x in xs]
DumpAll(xs) == PyList([i \in 1..Len(xs.items) |-> ModelDump(xs.items[i])])

\* A total taken from the pagination block the server sends.
ListTotal_ServerReported(xs) == PagOk.fields.total

\* "total": len(<the list the client returned>)
ListTotal(xs) == PyInt(Len(xs.items))

\* The key a list handler files its entities under.
EntityKey(h) ==
    CASE h = "get_subscribers" -> "subscribers"
      [] h = "get_tags" -> "tags"
      [] h = "get_campaigns" -> "campaigns"
      [] h = "get_custom_fields" -> "fields"

\* The body a list handler returns.
ListBody(h, b, xs) ==
    CASE h = "get_subscribers" ->
           PyDict([subscribers |-> DumpAll(xs), page |-> b.page, limit |-> b.limit,
                   total |-> ListTotal(xs)])
      [] h = "get_tags" ->
           PyDict([tags |-> DumpAll(xs), page |-> b.page, limit |-> b.limit,
                   total |-> ListTotal(xs)])
      [] h = "get_campaigns" ->
           PyDict([campaigns |-> DumpAll(xs), page |-> b.page, limit |-> b.limit,
                   total |-> ListTotal(xs)])
      [] h = "get_custom_fields" ->
           PyDict([fields |-> DumpAll(xs), page |-> b.page, limit |-> b.limit,
                   total |-> ListTotal(xs)])

\* get_subscriber's handler: whatever the client raised becomes NotFoundError.
GetSubscriberHandler(o) ==
    IF o.kind = "error"
    THEN Raised("NotFoundError", PyStr("Subscriber not found: " \o StrOf(o.message)))
    ELSE Returned(ModelDump(o.value))

\* How handler h ends once its client call ended with outcome o.
HandlerOutcome(h, b, o) ==
    IF h = "get_subscriber" THEN GetSubscriberHandler(o)
    ELSE IF o.kind = "error" THEN o
    ELSE IF h \in ListOps THEN Returned(ListBody(h, b, o.value))
    ELSE IF h = "delete_subscriber" THEN Returned(PyDict([success |-> PyBool(TRUE)]))
    ELSE Returned(ModelDump(o.value))

\* An error that leaves handle_rule_mcp as an exception.
DispatchRaised(e, msg) ==
    [kind |-> "raised", error |-> e, status |-> 0, message |-> msg, body |-> PyNone]

\* The status the router gives an error a handler raised.
ErrorStatus(o) ==
    CASE o.error = "RuleAPIError" ->
           IF o.status_code.kind = "int" THEN o.status_code.num ELSE 500
      [] o.error = "ValidationError" -> 400
      [] o.error = "NotFoundError" -> 404
      [] OTHER -> 500

\* The response envelope the router builds from a handler's outcome.
RouterResponse(o) ==
    IF o.kind = "error"
    THEN [kind |-> "response", error |-> o.error, status |-> ErrorStatus(o),
          message |-> o.message, body |-> PyDict([error |-> o.message])]
    ELSE [kind |-> "response", error |-> "", status |-> 200, message |-> PyNone,
          body |-> o.value]

\* handle_rule_mcp: metadata.get("api_key") of `request.metadata or {}`.
ApiKeyOf(request) == DictGet(PyOr(request.metadata, PyDict(EmptyFn)), "api_key", PyNone)

\* A check for None alone.
ApiKeyMissing_IsNone(api_key) == api_key = PyNone

\* handle_rule_mcp: `if not api_key`.
ApiKeyMissing(api_key) == ~Truthy(api_key)

\* A context built without the client.
BuildContext_Empty(c) == [client |-> NoClient]

\* handle_rule_mcp: Context({"client": client}).
BuildContext(c) == [client |-> c]

\* --------------------------------------------------- the command line

\* mcp_rule.__version__
Version == "0.1.0"

Commands == {"subscribers", "tags", "campaigns"}

\* The command line as argparse sees it: the global flags, the subcommand
\* word ("" when there is none) and the subcommand's options.
Argv(version, api_key, command, list, get, create, email) ==
    [version |-> version, api_key |-> api_key, command |-> command, list |-> list,
     get |-> get, create |-> create, email |-> email]

NoArgv == Argv(FALSE, PyNone, "", FALSE, PyNone, FALSE, PyNone)

NoCli == [argv |-> NoArgv, status |-> -1, stdout |-> <<>>, stderr |-> <<>>]

\* A run that ended: exit status and the lines written to stdout and stderr.
Exited(argv, status, out, err) ==
    [argv |-> argv, status |-> status, stdout |-> out, stderr |-> err]

\* parser.parse_args(args) succeeds: the subcommand word, when there is one,
\* is one of the subparsers' names (argparse exits with status 2 otherwise).
ParseOk(argv) == argv.command \in Commands \cup {""}

\* What argparse writes to stderr for a subcommand it does not know.
UsageError(argv) ==
    <<"usage: cli.py [-h] [--version] [--api-key API_KEY] {subscribers,tags,campaigns} ...",
      "cli.py: error: argument command: invalid choice: '" \o argv.command \o "'">>

\* A key check that lets every run through.
CliKeyMissing_Never(argv) == FALSE

\* main: `if not parsed_args.api_key`.
CliKeyMissing(argv) == ~Truthy(argv.api_key)

\* The if/elif chain of main: the client operation the arguments select,
\* "" when they select none.
CliOperation(argv) ==
    CASE argv.command = "subscribers" ->
           IF argv.list THEN "get_subscribers"
           ELSE IF Truthy(argv.get) THEN "get_subscriber"
           ELSE IF argv.create /\ Truthy(argv.email) THEN "create_subscriber"
           ELSE ""
      [] argv.command = "tags" -> IF argv.list THEN "get_tags" ELSE ""
      [] argv.command = "campaigns" -> IF argv.list THEN "get_campaigns" ELSE ""
      [] OTHER -> ""

\* The line main prints when the arguments select no operation.
CliErrorLine(argv) ==
    CASE argv.command = "subscribers" ->
           "Error: Invalid subscriber command. Use --list, --get, or --create."
      [] argv.command = "tags" -> "Error: Invalid tag command. Use --list."
      [] argv.command = "campaigns" -> "Error: Invalid campaign command. Use --list."
      [] OTHER -> "Error: No command specified. Use --help for usage information."

\* The arguments main passes to the client operation.
CliArgs(argv) ==
    CASE CliOperation(argv) = "get_subscriber" -> [NoArgs EXCEPT !.id = argv.get.str]
      [] CliOperation(argv) = "create_subscriber" -> [NoArgs EXCEPT !.email = argv.email]
      [] OTHER -> NoArgs

\* The lines main prints for the value v an operation returned.
CliPrinted(op, v) ==
    CASE op \in {"get_subscribers", "get_tags", "get_campaigns"} ->
           [i \in 1..Len(v.items) |->
               StrOf(v.items[i].attrs.id) \o ": " \o
               StrOf(IF op = "get_subscribers" THEN v.items[i].attrs.email
                     ELSE v.items[i].attrs.name)]
      [] op = "get_subscriber" ->
           <<"ID: " \o StrOf(v.attrs.id), "Email: " \o StrOf(v.attrs.email),
             "Created: " \o StrOf(v.attrs.created)>>
      [] op = "create_subscriber" ->
           <<"Created subscriber: " \o StrOf(v.attrs.id) \o " (" \o
             StrOf(v.attrs.email) \o ")">>

\* What the interpreter writes for an exception that leaves main.
Traceback(o) == <<"Traceback (most recent call last):", o.error \o ": " \o StrOf(o.message)>>

\* ---------------------------------------------------------- input sets

ApiKeys == {PyStr(""), PyStr("test_api_key")}

Ids == {"123"}

FilterSets ==
    {EmptyFn, [status |-> PyStr("active")], [status |-> PyNone],
     [status |-> PyStr("active"), tag |-> PyNone]}

PagePairs == {<<PyInt(1), PyInt(100)>>, <<PyInt(2), PyInt(10)>>}

EmailArgs == {PyStr(""), PyStr("new@example.com")}

\* (tags, fields) argument pairs.
TagFieldArgs ==
    {<<PyNone, PyNone>>, <<PyList(<<>>), PyDict(EmptyFn)>>,
     <<PyList(<<PyStr("tag1")>>), PyNone>>,
     <<PyNone, PyDict([city |-> PyStr("Oslo")])>>,
     <<PyList(<<PyStr("tag1")>>), PyDict([city |-> PyStr("Oslo")])>>}

\* The argument tuples a caller passes to each operation.
ArgsOf(op) ==
    CASE op = "get_subscribers" ->
           {[NoArgs EXCEPT !.page = pl[1], !.limit = pl[2], !.filters = f] :
                pl \in PagePairs, f \in FilterSets}
      [] op \in {"get_tags", "get_campaigns", "get_custom_fields"} ->
           {[NoArgs EXCEPT !.page = pl[1], !.limit = pl[2]] : pl \in PagePairs}
      [] op \in {"get_subscriber", "delete_subscriber"} ->
           {[NoArgs EXCEPT !.id = i] : i \in Ids}
      [] op = "create_subscriber" ->
           {[NoArgs EXCEPT !.email = e, !.tags = tf[1], !.fields = tf[2]] :
                e \in EmailArgs \cup {PyNone}, tf \in TagFieldArgs}
      [] op = "update_subscriber" ->
           {[NoArgs EXCEPT !.id = i, !.email = e, !.tags = tf[1], !.fields = tf[2]] :
                i \in Ids, e \in EmailArgs \cup {PyNone}, tf \in TagFieldArgs}
      [] op = "create_tag" -> {[NoArgs EXCEPT !.name = PyStr("vip")]}
      [] op = "create_custom_field" ->
           {[NoArgs EXCEPT !.name = PyStr("city"), !.field_type = PyStr("string"),
                           !.default_value = d] : d \in {PyNone, PyStr("Oslo")}}

Metadatas ==
    {PyNone, PyDict(EmptyFn), PyDict([api_key |-> PyStr("")]),
     PyDict([api_key |-> PyStr("test_key")])}

Queries ==
    {PyNone, PyDict([page |-> PyInt(2), limit |-> PyInt(10)]),
     PyDict([filters |-> PyDict([status |-> PyStr("active")])])}

SubscriberBodies ==
    {PyNone,
     PyDict([email |-> PyStr("new@example.com"), tags |-> PyList(<<PyStr("tag1")>>)]),
     PyDict([email |-> PyStr("")]),
     PyDict([tags |-> PyList(<<PyStr("tag1")>>)])}

Shape(m, p, q, b) == [method |-> m, path |-> p, query |-> q, body |-> b]

\* (method, path, query, body) of the requests sent to the router.
RequestShapes ==
    {Shape(m, p, q, PyNone) :
        m \in {"GET", "get"},
        p \in {<<"subscribers">>, <<"tags">>, <<"campaigns">>, <<"fields">>},
        q \in Queries}
    \cup {Shape(m, <<"subscribers", "123">>, PyNone, PyNone) : m \in {"GET", "DELETE"}}
    \cup {Shape(m[1], m[2], PyNone, b) :
            m \in {<<"POST", <<"subscribers">> >>, <<"PUT", <<"subscribers", "123">> >>},
            b \in SubscriberBodies}
    \cup {Shape("POST", <<"tags">>, PyNone, b) :
            b \in {PyDict([name |-> PyStr("vip")]), PyDict(EmptyFn)}}
    \cup {Shape("POST", <<"fields">>, PyNone, b) :
            b \in {PyDict([name |-> PyStr("city"), field_type |-> PyStr("string")]),
                   PyDict([name |-> PyStr("city"), field_type |-> PyStr("string"),
                           default_value |-> PyStr("Oslo")])}}
    \cup {Shape("GET", <<"unknown">>, PyNone, PyNone),
          Shape("PATCH", <<"subscribers">>, PyNone, PyNone),
          Shape("DELETE", <<"tags">>, PyNone, PyNone)}

Requests ==
    {[method |-> s.method, path |-> s.path, query |-> s.query, body |-> s.body,
      metadata |-> md] : s \in RequestShapes, md \in Metadatas}

\* The requests a caller hands to the router itself (no metadata is read).
DirectRequests ==
    {[method |-> s.method, path |-> s.path, query |-> s.query, body |-> s.body,
      metadata |-> PyNone] : s \in RequestShapes}

\* The command lines given to main.
CliArgvs ==
    {Argv(v, k, c, FALSE, PyNone, FALSE, PyNone) :
        v \in BOOLEAN, k \in {PyNone} \cup ApiKeys, c \in {"", "bogus"}}
    \cup {Argv(v, k, "subscribers", l, g, c, e) :
            v \in BOOLEAN, k \in {PyNone} \cup ApiKeys, l \in BOOLEAN,
            g \in {PyNone, PyStr("123")}, c \in BOOLEAN,
            e \in {PyNone, PyStr("new@example.com")}}
    \cup {Argv(v, k, c, l, PyNone, FALSE, PyNone) :
            v \in BOOLEAN, k \in {PyNone} \cup ApiKeys, c \in {"tags", "campaigns"},
            l \in BOOLEAN}

NoCall == [op |-> "none", args |-> NoArgs, method |-> "", url |-> <<>>]

NoRequest ==
    [method |-> "", path |-> <<>>, query |-> PyNone, body |-> PyNone, metadata |-> PyNone]

NoDispatch ==
    [kind |-> "none", error |-> "", status |-> 0, message |-> PyNone, body |-> PyNone]

NoContext == [client |-> NoClient]

\* ---------------------------------------------------------------- actions

Init ==
    /\ pc = "idle"
    /\ entry = "none"
    /\ client = NoClient
    /\ ctx = NoContext
    /\ call = NoCall
    /\ req = NoRequest
    /\ sent = <<>>
    /\ resp = NoResponse
    /\ cres = NoOutcome
    /\ dres = NoDispatch
    /\ ctorCalls = 0
    /\ handlerRan = FALSE
    /\ instances = <<>>
    /\ log = <<>>
    /\ cli = NoCli

\* RuleClient(api_key=key), by a caller of the library.
NewClient(key) ==
    /\ pc = "idle"
    /\ client' = RuleClientInit(key)
    /\ pc' = "ready"
    /\ UNCHANGED <<entry, ctx, call, req, sent, resp, cres, dres, ctorCalls, handlerRan,
                   instances, log, cli>>

\* client.<op>(**a) up to the HTTP call (or to the error raised before it).
ClientCall(op, a) ==
    /\ pc = "ready"
    /\ entry' = "client"
    /\ call' = [op |-> op, args |-> a, method |-> OpRequest(op, a).method,
                url |-> OpRequest(op, a).url]
    /\ IF LocalError(op, a).kind = "error"
       THEN /\ cres' = LocalError(op, a)
            /\ sent' = <<>>
            /\ pc' = "done"
       ELSE /\ cres' = NoOutcome
            /\ sent' = IssuedBy(client, OpRequest(op, a).method, OpRequest(op, a).url,
                                OpRequest(op, a).params, OpRequest(op, a).data)
            /\ pc' = "http"
    /\ UNCHANGED <<client, ctx, req, resp, dres, ctorCalls, handlerRan, instances, log,
                   cli>>

\* client._request(method, url) up to the HTTP call.
RawRequest(method, url) ==
    /\ pc = "ready"
    /\ entry' = "request"
    /\ call' = [op |-> "_request", args |-> NoArgs, method |-> method, url |-> url]
    /\ sent' = IssuedBy(client, method, url, PyNone, PyNone)
    /\ IF SupportedMethod(method)
       THEN /\ cres' = NoOutcome
            /\ pc' = "http"
       ELSE /\ cres' = Raised("ValueError", PyStr("Unsupported HTTP method: " \o method))
            /\ pc' = "done"
    /\ UNCHANGED <<client, ctx, req, resp, dres, ctorCalls, handlerRan, instances, log,
                   cli>>

\* The transport delivers r to a call made on the caller's own client.
ClientRespond(r) ==
    /\ pc = "http"
    /\ entry \in {"client", "request"}
    /\ resp' = r
    /\ cres' = OpOutcome(call.op, RequestOutcome(r))
    /\ pc' = "done"
    /\ UNCHANGED <<entry, client, ctx, call, req, sent, dres, ctorCalls, handlerRan,
                   instances, log, cli>>

\* router.handle_request(request, context) up to the handler's HTTP call, or
\* to the end of the dispatch when it ends before one.
RouteRequest(request, context) ==
    LET route == MatchRoute(request.method, request.path)
        h == RouteTable[route].handler
        a == HandlerArgs(h, Bound(h, request), request.path)
    IN
    IF route = 0
    THEN /\ dres' = DispatchRaised("NotFoundError", PyStr("No route matches"))
         /\ handlerRan' = FALSE
         /\ call' = NoCall
         /\ cres' = NoOutcome
         /\ sent' = <<>>
         /\ pc' = "done"
    ELSE IF ~BindOk(h, request)
    THEN /\ dres' = RouterResponse(Raised("ValidationError", PyStr("Invalid request")))
         /\ handlerRan' = FALSE
         /\ call' = NoCall
         /\ cres' = NoOutcome
         /\ sent' = <<>>
         /\ pc' = "done"
    ELSE IF ~context.client.exists
    THEN /\ dres' = RouterResponse(
                      Raised("MCPError", PyStr("Rule client not initialized")))
         /\ handlerRan' = TRUE
         /\ call' = NoCall
         /\ cres' = NoOutcome
         /\ sent' = <<>>
         /\ pc' = "done"
    ELSE IF LocalError(h, a).kind = "error"
    THEN /\ handlerRan' = TRUE
         /\ call' = [op |-> h, args |-> a, method |-> OpRequest(h, a).method,
                     url |-> OpRequest(h, a).url]
         /\ cres' = LocalError(h, a)
         /\ dres' = RouterResponse(HandlerOutcome(h, Bound(h, request), LocalError(h, a)))
         /\ sent' = <<>>
         /\ pc' = "done"
    ELSE /\ handlerRan' = TRUE
         /\ call' = [op |-> h, args |-> a, method |-> OpRequest(h, a).method,
                     url |-> OpRequest(h, a).url]
         /\ cres' = NoOutcome
         /\ dres' = NoDispatch
         /\ sent' = IssuedBy(context.client, OpRequest(h, a).method,
                             OpRequest(h, a).url, OpRequest(h, a).params,
                             OpRequest(h, a).data)
         /\ pc' = "http"

\* A handle_rule_mcp that keeps the first client it made for later requests.
MakeClient_Cached(insts, api_key) ==
    IF insts = <<>>
    THEN [all |-> <<RuleClientInit(api_key)>>, idx |-> 1]
    ELSE [all |-> insts, idx |-> 1]

\* client = RuleClient(api_key=api_key): a new object at every call; `all`
\* is every instance made so far, `idx` the one handed back.
MakeClient(insts, api_key) ==
    [all |-> Append(insts, RuleClientInit(api_key)), idx |-> Len(insts) + 1]

\* What a dispatch leaves in the log: the request's api_key, how many
\* clients it constructed, the instance it put in the context and the
\* instance its handler got (0 for none).
Logged(request, built, instance, used) ==
    [api_key |-> ApiKeyOf(request), built |-> built, instance |-> instance,
     used |-> used]

\* handle_rule_mcp(request) up to the handler's HTTP call, or to the end of
\* the dispatch when it ends before one.
Dispatch(request) ==
    /\ pc = "idle"
    /\ entry' = "router"
    /\ req' = request
    /\ resp' = resp
    /\ client' = client
    /\ cli' = cli
    /\ IF ApiKeyMissing(ApiKeyOf(request))
       THEN /\ dres' = DispatchRaised("ValidationError", PyStr("API key is required"))
            /\ ctorCalls' = 0
            /\ ctx' = NoContext
            /\ handlerRan' = FALSE
            /\ call' = NoCall
            /\ cres' = NoOutcome
            /\ sent' = <<>>
            /\ pc' = "done"
            /\ instances' = instances
            /\ log' = Append(log, Logged(request, 0, 0, 0))
       ELSE LET made == MakeClient(instances, ApiKeyOf(request))
                context == BuildContext(made.all[made.idx])
            IN  /\ instances' = made.all
                /\ ctorCalls' = Len(made.all) - Len(instances)
                /\ ctx' = context
                /\ RouteRequest(request, context)
                /\ log' = Append(log, Logged(request, Len(made.all) - Len(instances),
                                             made.idx,
                                             IF handlerRan' THEN made.idx ELSE 0))

\* router.handle_request(request, Context({})): the module's router invoked
\* by a caller other than handle_rule_mcp, with a context that has no client.
HandleRequest(request) ==
    /\ pc = "idle"
    /\ entry' = "direct"
    /\ req' = request
    /\ resp' = resp
    /\ client' = client
    /\ ctorCalls' = 0
    /\ ctx' = NoContext
    /\ RouteRequest(request, NoContext)
    /\ UNCHANGED <<instances, log, cli>>

\* The transport delivers r to the client call of the handler in progress;
\* the handler finishes and the router builds the response.
DispatchRespond(r) ==
    /\ pc = "http"
    /\ entry = "router"
    /\ resp' = r
    /\ cres' = OpOutcome(call.op, RequestOutcome(r))
    /\ dres' = RouterResponse(
                 HandlerOutcome(call.op, Bound(call.op, req),
                                OpOutcome(call.op, RequestOutcome(r))))
    /\ pc' = "done"
    /\ UNCHANGED <<entry, client, ctx, call, req, sent, ctorCalls, handlerRan,
                   instances, log, cli>>

\* The caller takes the outcome; what the call built is let go.
Finish ==
    /\ pc = "done"
    /\ pc' = "idle"
    /\ entry' = "none"
    /\ ctx' = NoContext
    /\ call' = NoCall
    /\ req' = NoRequest
    /\ sent' = <<>>
    /\ resp' = NoResponse
    /\ cres' = NoOutcome
    /\ dres' = NoDispatch
    /\ ctorCalls' = 0
    /\ handlerRan' = FALSE
    /\ client' = NoClient
    /\ cli' = NoCli

\* The call is over and its history is dropped: the next call starts from a
\* clean slate.
Return ==
    /\ Finish
    /\ instances' = <<>>
    /\ log' = <<>>

\* The dispatch is over and the process goes on to its next request; the
\* instances made so far and the log stay.
NextDispatch ==
    /\ Finish
    /\ Len(log) < MaxDispatches
    /\ UNCHANGED <<instances, log>>

\* main(args) up to the client operation's HTTP call, or to its exit when it
\* ends before one.
CliMain(argv) ==
    /\ pc = "idle"
    /\ entry' = "cli"
    /\ IF ~ParseOk(argv)
       THEN /\ cli' = Exited(argv, 2, <<>>, UsageError(argv))
            /\ client' = client
            /\ call' = NoCall
            /\ cres' = NoOutcome
            /\ sent' = <<>>
            /\ pc' = "done"
       ELSE IF argv.version
       THEN /\ cli' = Exited(argv, 0, <<"mcp-rule version " \o Version>>, <<>>)
            /\ client' = client
            /\ call' = NoCall
            /\ cres' = NoOutcome
            /\ sent' = <<>>
            /\ pc' = "done"
       ELSE IF CliKeyMissing(argv)
       THEN /\ cli' = Exited(argv, 1,
                             <<"Error: API key is required. Use --api-key option.">>, <<>>)
            /\ client' = client
            /\ call' = NoCall
            /\ cres' = NoOutcome
            /\ sent' = <<>>
            /\ pc' = "done"
       ELSE IF CliOperation(argv) = ""
       THEN /\ cli' = Exited(argv, 1, <<CliErrorLine(argv)>>, <<>>)
            /\ client' = RuleClientInit(argv.api_key)
            /\ call' = NoCall
            /\ cres' = NoOutcome
            /\ sent' = <<>>
            /\ pc' = "done"
       ELSE LET op == CliOperation(argv)
                a == CliArgs(argv)
            IN  /\ client' = RuleClientInit(argv.api_key)
                /\ call' = [op |-> op, args |-> a, method |-> OpRequest(op, a).method,
                            url |-> OpRequest(op, a).url]
                /\ IF LocalError(op, a).kind = "error"
                   THEN /\ cres' = LocalError(op, a)
                        /\ cli' = Exited(argv, 1, <<>>, Traceback(LocalError(op, a)))
                        /\ sent' = <<>>
                        /\ pc' = "done"
                   ELSE /\ cres' = NoOutcome
                        /\ cli' = [NoCli EXCEPT !.argv = argv]
                        /\ sent' = IssuedBy(RuleClientInit(argv.api_key),
                                            OpRequest(op, a).method, OpRequest(op, a).url,
                                            OpRequest(op, a).params, OpRequest(op, a).data)
                        /\ pc' = "http"
    /\ UNCHANGED <<ctx, req, resp, dres, ctorCalls, handlerRan, instances, log>>

\* The transport delivers r to the client call main made: main prints the
\* result and returns 0, or the client's error leaves main uncaught.
CliRespond(r) ==
    /\ pc = "http"
    /\ entry = "cli"
    /\ resp' = r
    /\ cres' = OpOutcome(call.op, RequestOutcome(r))
    /\ cli' = IF OpOutcome(call.op, RequestOutcome(r)).kind = "result"
              THEN Exited(cli.argv, 0,
                          CliPrinted(call.op, OpOutcome(call.op, RequestOutcome(r)).value),
                          <<>>)
              ELSE Exited(cli.argv, 1, <<>>,
                          Traceback(OpOutcome(call.op, RequestOutcome(r))))
    /\ pc' = "done"
    /\ UNCHANGED <<entry, client, ctx, call, req, sent, dres, ctorCalls, handlerRan,
                   instances, log>>

Next ==
    \/ \E key \in ApiKeys : NewClient(key)
    \/ \E op \in OpNames : \E a \in ArgsOf(op) : ClientCall(op, a)
    \/ \E m \in Methods : RawRequest(m, <<"subscribers">>)
    \/ \E r \in Responses : ClientRespond(r)
    \/ \E request \in Requests : Dispatch(request)
    \/ \E request \in DirectRequests : HandleRequest(request)
    \/ \E r \in Responses : DispatchRespond(r)
    \/ Return

Spec == Init /\ [][Next]_vars

\* Runs of the command line.
NextCli ==
    \/ \E argv \in CliArgvs : CliMain(argv)
    \/ \E r \in Responses : CliRespond(r)
    \/ Return

SpecCli == Init /\ [][NextCli]_vars

\* Requests of a process that serves several callers, each with a key of
\* its own.
SeqMetadatas ==
    {PyNone, PyDict([api_key |-> PyStr("key_a")]), PyDict([api_key |-> PyStr("key_b")])}

SeqRequests ==
    {[method |-> s.method, path |-> s.path, query |-> s.query, body |-> s.body,
      metadata |-> md] :
        s \in {Shape("GET", <<"subscribers">>, PyNone, PyNone),
                Shape("DELETE", <<"subscribers", "123">>, PyNone, PyNone),
                Shape("POST", <<"tags">>, PyNone, PyDict(EmptyFn)),
                Shape("GET", <<"tags">>, PyNone, PyNone),
                Shape("POST", <<"subscribers">>, PyNone,
                      PyDict([email |-> PyStr("new@example.com")])),
                Shape("GET", <<"unknown">>, PyNone, PyNone)},
        md \in SeqMetadatas}

SeqResponses ==
    {HttpResponse(200, JsonBody(Envelope(PyList(<<SubA>>), PagOk))),
     HttpResponse(204, TextBody("")),
     HttpResponse(500, JsonBody(PyDict([message |-> PyStr("Not found")]))),
     TransportFailure("[Errno 111] Connection refused")}

\* A sequence of dispatches through handle_rule_mcp in one process.
NextSeq ==
    \/ \E request \in SeqRequests : Dispatch(request)
    \/ \E r \in SeqResponses : DispatchRespond(r)
    \/ NextDispatch

SpecSeq == Init /\ [][NextSeq]_vars

\* ------------------------------------------------------------ properties

\* The dispatch in progress got a request whose metadata has no api_key.
NoKeyRequest ==
    /\ entry = "router"
    /\ \/ req.metadata = PyNone
       \/ ~HasKey(req.metadata, "api_key")
       \/ req.metadata.fields.api_key = PyStr("")

\* C1: a request passed to handle_rule_mcp whose metadata has no api_key
\* (no metadata, no key, or an empty key) fails with
\* ValidationError("API key is required"); in that dispatch RuleClient is
\* never constructed, no handler runs and nothing is sent.
C1_MissingKeyRejected ==
    NoKeyRequest =>
        /\ pc = "done"
        /\ dres = DispatchRaised("ValidationError", PyStr("API key is required"))
        /\ ctorCalls = 0
        /\ ~ctx.client.exists
        /\ ~handlerRan
        /\ call = NoCall
        /\ sent = <<>>

C1_Witness ==
    /\ NoKeyRequest
    /\ req.metadata = PyDict([api_key |-> PyStr("")])
    /\ req.method = "GET"
    /\ req.path = <<"subscribers">>
    /\ dres.error = "ValidationError"

\* The call in progress ended on a status >= 400 whose body is a JSON object
\* with a `message` field.
ErrorWithMessage ==
    /\ pc = "done"
    /\ resp.kind = "http"
    /\ resp.status >= 400
    /\ resp.body.json
    /\ HasKey(resp.body.value, "message")

\* C2: for every client operation, a response with status >= 400 whose body
\* is a JSON object with a `message` field raises RuleAPIError whose
\* status_code is the response status, whose message is that field and whose
\* details is the parsed body; no result is returned.
C2_ApiErrorFromMessage ==
    ErrorWithMessage =>
        /\ cres.kind = "error"
        /\ cres.error = "RuleAPIError"
        /\ cres.status_code = PyInt(resp.status)
        /\ cres.message = resp.body.value.fields.message
        /\ cres.details = resp.body.value
        /\ cres.value = PyNone

C2_Witness ==
    /\ ErrorWithMessage
    /\ entry = "client"
    /\ call.op = "get_subscribers"
    /\ resp.status = 404
    /\ cres.message = PyStr("Not found")

\* The call in progress ended on a status >= 400 whose body is no JSON.
ErrorWithoutJson ==
    /\ pc = "done"
    /\ resp.kind = "http"
    /\ resp.status >= 400
    /\ ~resp.body.json

\* C3 as stated: a status >= 400 with a body that is no JSON raises
\* RuleAPIError whose message is the raw response text and whose details is
\* the fallback body built from that text (read on a client whose key is
\* not empty).
C3_MessageIsRawText ==
    (ErrorWithoutJson /\ entry = "client" /\ Truthy(client.api_key)) =>
        /\ cres.error = "RuleAPIError"
        /\ cres.message = PyStr(resp.body.text)
        /\ cres.details = PyDict([detail |-> PyStr(resp.body.text)])

\* C3, amended: a status >= 400 with a body that is no JSON raises
\* RuleAPIError with the response's status, whose details is the fallback
\* body {"detail": <raw text>} and whose message is the description of the
\* HTTP status error (str(e)) in place of the raw response text.
C3_MessageIsStatusError ==
    ErrorWithoutJson =>
        /\ cres.kind = "error"
        /\ cres.error = "RuleAPIError"
        /\ cres.status_code = PyInt(resp.status)
        /\ cres.details = PyDict([detail |-> PyStr(resp.body.text)])
        /\ cres.message = PyStr(StatusErrorStr(resp.status))

C3_Witness ==
    /\ ErrorWithoutJson
    /\ resp.status = 500
    /\ resp.body.text = "<html>Bad Gateway</html>"
    /\ cres.details = PyDict([detail |-> PyStr("<html>Bad Gateway</html>")])

\* C4: for every client operation, a transport-level failure of the HTTP
\* call (DNS, connection refused, timeout) raises RuleAPIError with
\* status_code None, message "Request error: <cause>" and details {}.
C4_TransportFailureWrapped ==
    (pc = "done" /\ resp.kind = "transport") =>
        /\ cres.kind = "error"
        /\ cres.error = "RuleAPIError"
        /\ cres.status_code = PyNone
        /\ cres.message = PyStr("Request error: " \o resp.cause)
        /\ cres.details = PyDict(EmptyFn)

C4_Witness ==
    /\ pc = "done"
    /\ entry = "client"
    /\ call.op = "create_subscriber"
    /\ resp = TransportFailure("The read operation timed out")
    /\ cres.message = PyStr("Request error: The read operation timed out")

\* The method names that are GET, POST, PUT or DELETE in some case.
SupportedSpellings ==
    {"GET", "get", "POST", "Post", "PUT", "put", "DELETE", "delete"}

\* C5: _request called with a method other than GET, POST, PUT or DELETE
\* (compared case-insensitively) fails with the unsupported-method error
\* (ValueError "Unsupported HTTP method: ...") and issues no HTTP call; with
\* one of the four, in any case, it issues exactly one.
C5_UnsupportedMethodFails ==
    entry = "request" =>
        IF call.method \in SupportedSpellings
        THEN Len(sent) = 1 /\ cres.error # "ValueError"
        ELSE /\ pc = "done"
             /\ cres = Raised("ValueError",
                              PyStr("Unsupported HTTP method: " \o call.method))
             /\ sent = <<>>
             /\ resp = NoResponse

C5_Witness ==
    /\ entry = "request"
    /\ call.method = "patch"
    /\ pc = "done"
    /\ cres.error = "ValueError"

\* C6 as stated: no client instance with an empty API key ever exists and no
\* request is ever sent with an empty bearer token.
C6_NoEmptyKeyClient ==
    /\ client.exists => Truthy(client.api_key)
    /\ ctx.client.exists => Truthy(ctx.client.api_key)
    /\ \A i \in 1..Len(sent) : sent[i].auth # "Bearer "

\* The error kinds of the taxonomy (ApiError is RuleAPIError).
Taxonomy == {"ConfigError", "RuleAPIError", "ValidationError", "NotFoundError"}

\* C7 as stated: every failing path of a client operation ends with an error
\* of the taxonomy; no other error kind escapes a client call (read on a
\* client whose key is not empty, for the paths the claim lists: a 204, a JSON
\* body of any shape under any status, a transport failure).
C7_OnlyTaxonomyErrors ==
    /\ (pc = "done" /\ entry = "client" /\ cres.kind = "error"
            /\ Truthy(client.api_key)
            /\ (resp.kind = "transport" \/ resp.status = 204 \/ resp.body.json)) =>
           cres.error \in Taxonomy

\* C8: a call to a client operation issues at most one HTTP request and ends
\* with exactly one outcome, a result or an error; once the response (or the
\* transport failure) is in, the one request issued is all there is, and an
\* error carries no result.
C8_OneRequestOneOutcome ==
    /\ Len(sent) <= 1
    /\ pc = "http" => Len(sent) = 1 /\ cres.kind = "none" /\ resp = NoResponse
    /\ (pc = "done" /\ entry \in {"client", "request"}) =>
           /\ cres.kind \in {"result", "error"}
           /\ resp # NoResponse => Len(sent) = 1
    /\ cres.kind = "error" => cres.value = PyNone
    /\ cres.kind = "result" => cres.error = ""

C8_Witness ==
    /\ pc = "done"
    /\ entry = "client"
    /\ call.op = "get_tags"
    /\ resp.kind = "http"
    /\ resp.status = 500
    /\ cres.kind = "error"
    /\ Len(sent) = 1

\* C9 as stated: when the client raises RuleAPIError inside a handler, the
\* error leaving the dispatch carries that error's status code (500 if it
\* has none), on every route; NotFoundError arises only when the remote
\* lookup returned 404.
C9_ApiErrorStatusKept ==
    (pc = "done" /\ entry = "router" /\ cres.error = "RuleAPIError") =>
        /\ dres.status = (IF cres.status_code.kind = "int"
                          THEN cres.status_code.num ELSE 500)
        /\ dres.error = "NotFoundError" => (resp.kind = "http" /\ resp.status = 404)

\* A list operation of the caller ended on a 200 whose JSON object has no
\* `data` key.
ListWithoutData ==
    /\ pc = "done"
    /\ entry = "client"
    /\ call.op \in ListOps
    /\ resp.kind = "http"
    /\ resp.status = 200
    /\ resp.body.json
    /\ resp.body.value.kind = "dict"
    /\ "data" \notin DOMAIN resp.body.value.fields

\* C10 as stated: all four list operations return the empty sequence, and
\* raise no error, when the successful response's JSON object has no `data`.
C10_AllListsDefaultEmpty ==
    ListWithoutData => cres = Returned(PyList(<<>>))

\* C10, amended: get_tags, get_campaigns and get_custom_fields return the
\* empty sequence, and raise no error, when the successful response's JSON
\* object has no `data` key; get_subscribers raises a validation error there.
C10_ThreeListsDefaultEmpty ==
    ListWithoutData =>
        IF call.op = "get_subscribers"
        THEN cres.kind = "error" /\ cres.error = "ValidationError"
        ELSE cres = Returned(PyList(<<>>))

C10_Witness ==
    /\ ListWithoutData
    /\ call.op = "get_campaigns"
    /\ resp.body.value = PyDict(EmptyFn)
    /\ cres = Returned(PyList(<<>>))

\* The caller's client (with a key that is not empty) is in a call of op.
InClientCall(op) ==
    /\ entry = "client"
    /\ call.op = op
    /\ Truthy(client.api_key)

\* tags / fields as create_subscriber's body must carry them: the argument,
\* or the empty default when the argument is None.
OrDefault(v, default) == IF v = PyNone THEN default ELSE v

\* C11 as stated: create_subscriber called with an empty email fails locally
\* and sends no POST; called with a non-empty email it sends exactly one
\* POST /subscribers whose body has exactly the keys email, tags and fields,
\* tags defaulting to [] and fields to {} when not provided or None.
C11_EmptyEmailFailsLocally ==
    (InClientCall("create_subscriber") /\ call.args.email.kind = "str") =>
        IF call.args.email = PyStr("")
        THEN pc = "done" /\ cres.kind = "error" /\ sent = <<>>
        ELSE /\ Len(sent) = 1
             /\ sent[1].method = "POST"
             /\ sent[1].url = <<"subscribers">>
             /\ sent[1].json =
                    PyDict([email |-> call.args.email,
                            tags |-> OrDefault(call.args.tags, PyList(<<>>)),
                            fields |-> OrDefault(call.args.fields, PyDict(EmptyFn))])

\* The filter entries of the call in progress whose value is not None.
NonNullFilters == {k \in DOMAIN call.args.filters : call.args.filters[k] # PyNone}

\* C12: get_subscribers(page, limit, filters) sends one GET /subscribers
\* whose query has the keys page and limit plus exactly the filter entries
\* whose value is not None, each with the filter's value; a None-valued
\* filter never appears, and without filters the default query is exactly
\* {page: 1, limit: 100}.
C12_QueryIsPageLimitPlusFilters ==
    call.op = "get_subscribers" =>
        /\ Len(sent) = 1
        /\ sent[1].method = "GET"
        /\ sent[1].url = <<"subscribers">>
        /\ sent[1].json = Absent
        /\ sent[1].params.kind = "dict"
        /\ DOMAIN sent[1].params.fields = {"page", "limit"} \cup NonNullFilters
        /\ \A k \in NonNullFilters : sent[1].params.fields[k] = call.args.filters[k]
        /\ sent[1].params.fields.page = call.args.page
        /\ sent[1].params.fields.limit = call.args.limit
        /\ \A k \in DOMAIN sent[1].params.fields : sent[1].params.fields[k] # PyNone
        /\ (call.args.filters = EmptyFn /\ call.args.page = PyInt(1)
                /\ call.args.limit = PyInt(100)) =>
               sent[1].params = PyDict([page |-> PyInt(1), limit |-> PyInt(100)])

C12_Witness ==
    /\ InClientCall("get_subscribers")
    /\ call.args.filters = [status |-> PyStr("active"), tag |-> PyNone]
    /\ call.args.page = PyInt(2)
    /\ sent[1].params =
           PyDict([page |-> PyInt(2), limit |-> PyInt(10), status |-> PyStr("active")])

\* The arguments email, tags, fields of the call in progress that are not None.
NonNullUpdateArgs == {k \in {"email", "tags", "fields"} : call.args[k] # PyNone}

\* C13: update_subscriber(id, email, tags, fields) sends one PUT
\* /subscribers/{id} whose body has exactly the keys among email, tags and
\* fields whose argument is not None, each with the argument's value; an
\* argument left None never appears, an empty list or mapping does.
C13_UpdateBodyIsNonNullArgs ==
    call.op = "update_subscriber" =>
        /\ Len(sent) = 1
        /\ sent[1].method = "PUT"
        /\ sent[1].url = <<"subscribers", call.args.id>>
        /\ sent[1].params = Absent
        /\ sent[1].json.kind = "dict"
        /\ DOMAIN sent[1].json.fields = NonNullUpdateArgs
        /\ \A k \in NonNullUpdateArgs : sent[1].json.fields[k] = call.args[k]

C13_Witness ==
    /\ InClientCall("update_subscriber")
    /\ call.args.email = PyNone
    /\ call.args.tags = PyList(<<>>)
    /\ call.args.fields = PyDict(EmptyFn)
    /\ sent[1].json = PyDict([tags |-> PyList(<<>>), fields |-> PyDict(EmptyFn)])

\* C14: the POST /subscribers handler calls the client's create_subscriber
\* once, with email, tags and fields as the request body has them and None
\* for an optional key the body omits (no default is substituted); when the
\* client returns a record, the response has status 200 and its body is
\* that record serialized.
C14_CreateHandlerPassesBody ==
    (entry = "router" /\ call.op = "create_subscriber") =>
        /\ handlerRan
        /\ Len(sent) = 1
        /\ call.args.email = req.body.fields.email
        /\ call.args.tags = DictGet(req.body, "tags", PyNone)
        /\ call.args.fields = DictGet(req.body, "fields", PyNone)
        /\ (pc = "done" /\ cres.kind = "result") =>
               /\ dres.kind = "response"
               /\ dres.status = 200
               /\ dres.body = ModelDump(cres.value)

C14_Witness ==
    /\ entry = "router"
    /\ call.op = "create_subscriber"
    /\ req.body = PyDict([email |-> PyStr("new@example.com"),
                          tags |-> PyList(<<PyStr("tag1")>>)])
    /\ call.args.tags = PyList(<<PyStr("tag1")>>)
    /\ call.args.fields = PyNone
    /\ pc = "done"
    /\ dres.status = 200
    /\ dres.body.fields.id = PyStr("456")

\* A dispatch to a list handler ended with the client returning a list.
ListHandlerReturned ==
    /\ pc = "done"
    /\ entry = "router"
    /\ call.op \in ListOps
    /\ cres.kind = "result"

\* C15: every list handler (GET /subscribers, /tags, /campaigns, /fields)
\* returns a body whose total is the number of entities the client returned
\* (not a total the server reports), whose entity-named array holds those
\* entities serialized, in the same number and order, and whose page and
\* limit are those of the request parameters.
C15_ListBodyCountsReturned ==
    ListHandlerReturned =>
        /\ dres.body.kind = "dict"
        /\ DOMAIN dres.body.fields = {EntityKey(call.op), "page", "limit", "total"}
        /\ dres.body.fields.total = PyInt(Len(cres.value.items))
        /\ dres.body.fields[EntityKey(call.op)].kind = "list"
        /\ Len(dres.body.fields[EntityKey(call.op)].items) = Len(cres.value.items)
        /\ \A i \in 1..Len(cres.value.items) :
               dres.body.fields[EntityKey(call.op)].items[i] =
                   ModelDump(cres.value.items[i])
        /\ dres.body.fields.page = DictGet(PyOr(req.query, PyDict(EmptyFn)), "page", PyInt(1))
        /\ dres.body.fields.limit =
               DictGet(PyOr(req.query, PyDict(EmptyFn)), "limit", PyInt(100))

C15_Witness ==
    /\ ListHandlerReturned
    /\ call.op = "get_subscribers"
    /\ req.query = PyDict([page |-> PyInt(2), limit |-> PyInt(10)])
    /\ resp.body.value = Envelope(PyList(<<SubB, SubA>>), PagOk)
    /\ dres.body.fields.total = PyInt(2)
    /\ dres.body.fields.page = PyInt(2)
    /\ dres.body.fields.subscribers.items[1].fields.id = PyStr("456")

\* get_subscribers of the caller ended on a successful status that carries a
\* body (2xx other than 204) whose JSON is a valid subscriber envelope: `data`
\* a list of objects the Subscriber model accepts, `pagination` an object the
\* Pagination model accepts.
ValidEnvelopeReturned ==
    /\ pc = "done"
    /\ InClientCall("get_subscribers")
    /\ resp.kind = "http"
    /\ ~RaisesForStatus(resp.status)
    /\ resp.status # 204
    /\ resp.body.json
    /\ HasKey(resp.body.value, "data")
    /\ HasKey(resp.body.value, "pagination")
    /\ resp.body.value.fields.data.kind = "list"
    /\ \A i \in 1..Len(resp.body.value.fields.data.items) :
           /\ resp.body.value.fields.data.items[i].kind = "dict"
           /\ Validates("Subscriber", resp.body.value.fields.data.items[i].fields)
    /\ resp.body.value.fields.pagination.kind = "dict"
    /\ Validates("Pagination", resp.body.value.fields.pagination.fields)

\* The i-th JSON object of the envelope's `data`.
JsonObject(i) == resp.body.value.fields.data.items[i].fields

\* The result has one Subscriber per JSON object of `data`, in order.
SameLengthAndOrder ==
    /\ cres.kind = "result"
    /\ cres.value.kind = "list"
    /\ Len(cres.value.items) = Len(resp.body.value.fields.data.items)
    /\ \A i \in 1..Len(cres.value.items) :
           /\ cres.value.items[i].kind = "model"
           /\ cres.value.items[i].cls = "Subscriber"
           /\ cres.value.items[i].attrs.id = JsonObject(i).id
           /\ cres.value.items[i].attrs.email = JsonObject(i).email

\* C16 as stated: for a valid subscriber envelope returned with a 2xx
\* status, get_subscribers returns a sequence of the length and order of
\* `data` whose i-th element's fields, id and email and every other one,
\* equal those of the i-th JSON object.
C16_RoundTripExact ==
    ValidEnvelopeReturned =>
        /\ SameLengthAndOrder
        /\ \A i \in 1..Len(cres.value.items) :
               \A k \in DOMAIN JsonObject(i) :
                   cres.value.items[i].attrs[k] = JsonObject(i)[k]

\* C16, amended: for a valid subscriber envelope returned with a 2xx status
\* that carries a body, get_subscribers returns a sequence of the length and
\* order of `data`; the i-th element's id, email and every other field of
\* the i-th JSON object that is no timestamp equal the JSON values, while
\* created and updated are the datetimes parsed from the JSON strings.
C16_RoundTripUpToParsing ==
    ValidEnvelopeReturned =>
        /\ SameLengthAndOrder
        /\ \A i \in 1..Len(cres.value.items) :
               \A k \in DOMAIN JsonObject(i) :
                   IF k \in {"created", "updated"}
                   THEN /\ cres.value.items[i].attrs[k].kind = "datetime"
                        /\ cres.value.items[i].attrs[k].iso = JsonObject(i)[k].str
                   ELSE cres.value.items[i].attrs[k] = JsonObject(i)[k]

C16_Witness ==
    /\ ValidEnvelopeReturned
    /\ resp.status = 201
    /\ resp.body.value.fields.data = PyList(<<SubB, SubA>>)
    /\ Len(cres.value.items) = 2
    /\ cres.value.items[1].attrs.email = PyStr("new@example.com")
    /\ cres.value.items[2].attrs.id = PyStr("123")
    /\ cres.value.items[2].attrs.created = PyDatetime("2023-01-01T00:00:00Z")

\* A call of _request itself got an HTTP response.
RequestAnswered ==
    /\ pc = "done"
    /\ entry = "request"
    /\ resp.kind = "http"

\* C19: _request returns None, without parsing the body, when the status is
\* 204, and the parsed JSON body for every other successful status; the
\* status check comes first, so a failing status ends in an error and never
\* in None.
C19_NoContentIsNone ==
    RequestAnswered =>
        /\ resp.status = 204 => cres = Returned(PyNone)
        /\ (~RaisesForStatus(resp.status) /\ resp.status # 204 /\ resp.body.json) =>
               cres = Returned(resp.body.value)
        /\ RaisesForStatus(resp.status) => (cres.kind = "error" /\ cres.value = PyNone)

C19_Witness ==
    /\ RequestAnswered
    /\ Truthy(client.api_key)
    /\ resp = HttpResponse(204, TextBody("<html>Bad Gateway</html>"))
    /\ cres = Returned(PyNone)

\* C20: in every dispatch that goes through handle_rule_mcp, the context
\* handed to a route handler holds a client, so a handler never takes its
\* "Rule client not initialized" branch there; that error is reached only
\* when the router is invoked with a context built elsewhere.
C20_HandlerAlwaysHasClient ==
    /\ (entry = "router" /\ handlerRan) =>
           /\ ctx.client.exists
           /\ ctorCalls = 1
           /\ dres.error # "MCPError"
    /\ dres.message = PyStr("Rule client not initialized") => entry = "direct"

C20_Witness ==
    /\ entry = "router"
    /\ handlerRan
    /\ req.method = "DELETE"
    /\ req.path = <<"subscribers", "123">>
    /\ ctx.client = RuleClientInit(PyStr("test_key"))
    /\ pc = "done"
    /\ dres.body = PyDict([success |-> PyBool(TRUE)])

\* The dispatches of the log that carried an api_key.
Keyed == {i \in 1..Len(log) : ~ApiKeyMissing(log[i].api_key)}

\* C18: across a sequence of dispatches that carry an api_key, each dispatch
\* constructs exactly one new client, bound to that request's api_key, and
\* its handler uses the client of that same dispatch only: no instance, and
\* no key, of one request serves another.
C18_OneClientPerDispatch ==
    /\ Len(instances) = Cardinality(Keyed)
    /\ \A i \in Keyed :
           /\ log[i].built = 1
           /\ log[i].instance \in 1..Len(instances)
           /\ instances[log[i].instance].api_key = log[i].api_key
           /\ log[i].used \in {0, log[i].instance}
    /\ \A i, j \in Keyed : i # j => log[i].instance # log[j].instance
    /\ (entry = "router" /\ handlerRan) =>
           /\ log[Len(log)].used = log[Len(log)].instance
           /\ ctx.client = instances[log[Len(log)].instance]
           /\ ctx.client.api_key = ApiKeyOf(req)
           /\ \A k \in 1..Len(sent) : sent[k].auth = "Bearer " \o ApiKeyOf(req).str

C18_Witness ==
    /\ Len(log) = 2
    /\ log[1].api_key = PyStr("key_a")
    /\ log[2].api_key = PyStr("key_b")
    /\ log[1].used = 1
    /\ log[2].used = 2
    /\ entry = "router"
    /\ pc = "done"
    /\ Len(sent) = 1
    /\ sent[1].auth = "Bearer key_b"

\* A run of the command line has ended.
CliEnded == pc = "done" /\ entry = "cli"

\* The arguments name no operation: no subcommand, or a subcommand whose
\* options select nothing.
NoOperation(a) ==
    \/ a.command = ""
    \/ a.command \in {"tags", "campaigns"} /\ ~a.list
    \/ /\ a.command = "subscribers"
       /\ ~a.list
       /\ a.get = PyNone
       /\ ~(a.create /\ a.email # PyNone)

\* C17 as stated (read on runs without --version): the command line exits
\* with status 1 and one line of error whenever the API key is missing or
\* the subcommand is unrecognized or absent, exits with status 0 exactly
\* when the requested command succeeded, and constructs no client and makes
\* no HTTP call on a run that lacks an API key.
C17_BadUsageExitsOne ==
    (CliEnded /\ ~cli.argv.version) =>
        /\ (~Truthy(cli.argv.api_key) \/ cli.argv.command \notin Commands) =>
               (cli.status = 1 /\ Len(cli.stdout) = 1)
        /\ cli.status = 0 <=> cres.kind = "result"
        /\ ~Truthy(cli.argv.api_key) => (~client.exists /\ sent = <<>>)

\* C17, amended: a subcommand the parser does not know ends the run with
\* status 2 and a usage message on stderr; otherwise --version prints the
\* version and exits 0 without a key; otherwise a missing API key, an absent
\* subcommand or options that select no operation exit with status 1 and
\* one line of error on stdout; otherwise the run exits 0 exactly when the
\* requested command succeeded (a client error leaves main uncaught, status
\* 1). No client is constructed and no HTTP call made without an API key.
C17_CliExitStatus ==
    CliEnded =>
        /\ cli.status \in {0, 1, 2}
        /\ ~ParseOk(cli.argv) =>
               /\ cli.status = 2
               /\ cli.stdout = <<>>
               /\ Len(cli.stderr) > 0
               /\ ~client.exists
               /\ sent = <<>>
        /\ (ParseOk(cli.argv) /\ cli.argv.version) =>
               /\ cli.status = 0
               /\ cli.stdout = <<"mcp-rule version 0.1.0">>
               /\ ~client.exists
               /\ sent = <<>>
        /\ (ParseOk(cli.argv) /\ ~cli.argv.version
                /\ (~Truthy(cli.argv.api_key) \/ NoOperation(cli.argv))) =>
               /\ cli.status = 1
               /\ Len(cli.stdout) = 1
               /\ cli.stderr = <<>>
               /\ sent = <<>>
        /\ (ParseOk(cli.argv) /\ ~cli.argv.version) =>
               (cli.status = 0 <=> cres.kind = "result")
        /\ cres.kind = "error" => (cli.status = 1 /\ cli.stdout = <<>>)
        /\ ~Truthy(cli.argv.api_key) => (~client.exists /\ sent = <<>>)

C17_Witness ==
    /\ CliEnded
    /\ cli.argv.command = "bogus"
    /\ cli.argv.api_key = PyStr("test_api_key")
    /\ ~cli.argv.version
    /\ cli.status = 2
    /\ cli.stdout = <<>>

====
